---- MODULE Spec2Model ----
(***************************************************************************)
(* Model of src/soc/intel/xeon_sp/chip_common.c: the walk over the IIO     *)
(* stacks of the hand-off block (attach_iio_stacks), the per-variant       *)
(* domain builders built on soc_create_domains, and the read_resources     *)
(* callbacks of the created domains.                                       *)
(***************************************************************************)
EXTENDS Integers, Sequences, FiniteSets, TLC

VARIABLES hob, pc, s, x, devs, calls, cls, invoked

vars == <<hob, pc, s, x, devs, calls, cls, invoked>>

(* ------------------------------ bounds --------------------------------- *)

\* bus numbers are 0..MaxBus
MaxBus == 2
\* PciResource* fields are multiples 0..MaxAddr of 0x1000
MaxAddr == 2

(* ------------------------ platform constants --------------------------- *)

\* sockets of PlatformData.IIO_resource[]; numofIIO is at most this. The
\* value is configured outside this file; two-socket platform here.
MAX_SOCKET == 2
\* stack slots per socket, the bound of the inner loop. The value is set in
\* a header outside this file; two slots here.
MAX_LOGIC_IIO_STACK == 2

NULL == "NULL"

Buses == 0..MaxBus
Addrs == {a * 4096 : a \in 0..MaxAddr}
\* IoBase, Mmio32Base, Mmio64Base are 0 or 0x1000
Totals == {0, 4096}
Stacks == 0..(MAX_LOGIC_IIO_STACK - 1)

(* --------------------------- domain path ------------------------------- *)

\* union xeon_domain_path packs bus, stack and socket into domain_path
init_xeon_domain_path(socket, stack, bus) ==
    (bus % 256) + 256 * (stack % 256) + 65536 * (socket % 256)

dn_socket(domain_path) == (domain_path \div 65536) % 256
dn_stack(domain_path) == (domain_path \div 256) % 256
dn_bus(domain_path) == domain_path % 256

\* const STACK_RES *domain_to_stack_res(dev)
domain_to_stack_res(path) ==
    hob.IIO_resource[dn_socket(path)][dn_stack(path)]

(* ---------------------------- resources -------------------------------- *)

IORESOURCE_IO == "IORESOURCE_IO"
IORESOURCE_MEM == "IORESOURCE_MEM"
IORESOURCE_SUBTRACTIVE == "IORESOURCE_SUBTRACTIVE"
IORESOURCE_ASSIGNED == "IORESOURCE_ASSIGNED"

Resource(index, base, limit, size, flags) ==
    [index |-> index, base |-> base, limit |-> limit, size |-> size,
     flags |-> flags]

\* new_resource(dev, index) finds the resource with that index or appends a
\* fresh one; the caller then fills it in
new_resource(list, res) ==
    IF \E i \in 1..Len(list) : list[i].index = res.index
    THEN [i \in 1..Len(list) |->
            IF list[i].index = res.index THEN res ELSE list[i]]
    ELSE Append(list, res)

\* variant: ++index in place of index++
emit_preinc(acc, base, limit, size, flags) ==
    [list |-> new_resource(acc.list,
                  Resource(acc.index + 1, base, limit, size, flags)),
     index |-> acc.index + 1]

\* res = new_resource(dev, index++); res->base = ...; res->flags = ...;
\* acc is the pair (resource list of dev, the local index)
emit(acc, base, limit, size, flags) ==
    [list |-> new_resource(acc.list,
                  Resource(acc.index, base, limit, size, flags)),
     index |-> acc.index + 1]

\* variant: the size without the + 1
range_size_excl(base, limit) == limit - base

\* res->size = res->limit - res->base + 1;
range_size(base, limit) == limit - base + 1

\* variant: only the bus field of the path is compared with 0
has_legacy_range_bus(path) == dn_bus(path) = 0

\* if (dev->path.domain.domain == 0)
has_legacy_range(path) == path = 0

\* void iio_pci_domain_read_resources(struct device *dev)
iio_pci_domain_read_resources(path, list) ==
    LET sr == domain_to_stack_res(path)
        a0 == [list |-> list, index |-> 0]
        a1 == IF has_legacy_range(path)
              THEN emit(a0, 0, 4095, 4096,
                        {IORESOURCE_IO, IORESOURCE_SUBTRACTIVE,
                         IORESOURCE_ASSIGNED})
              ELSE a0
        a2 == IF sr.PciResourceIoBase < sr.PciResourceIoLimit
              THEN emit(a1, sr.PciResourceIoBase, sr.PciResourceIoLimit,
                        range_size(sr.PciResourceIoBase,
                                   sr.PciResourceIoLimit),
                        {IORESOURCE_IO, IORESOURCE_ASSIGNED})
              ELSE a1
        a3 == IF sr.PciResourceMem32Base < sr.PciResourceMem32Limit
              THEN emit(a2, sr.PciResourceMem32Base, sr.PciResourceMem32Limit,
                        range_size(sr.PciResourceMem32Base,
                                   sr.PciResourceMem32Limit),
                        {IORESOURCE_MEM, IORESOURCE_ASSIGNED})
              ELSE a2
        a4 == IF sr.PciResourceMem64Base < sr.PciResourceMem64Limit
              THEN emit(a3, sr.PciResourceMem64Base, sr.PciResourceMem64Limit,
                        range_size(sr.PciResourceMem64Base,
                                   sr.PciResourceMem64Limit),
                        {IORESOURCE_MEM, IORESOURCE_ASSIGNED})
              ELSE a3
    IN  a4.list

\* variant: <= in place of <
extends_below_incl(total_base, pci_base) == total_base <= pci_base

\* if (sr->IoBase < sr->PciResourceIoBase), and the Mmio32, Mmio64 tests
extends_below(total_base, pci_base) == total_base < pci_base

\* variant: the limit without the - 1
cxl_limit_incl(pci_base) == pci_base

\* res->limit = sr->PciResourceIoBase - 1, and the Mem32, Mem64 limits
cxl_limit(pci_base) == pci_base - 1

\* void iio_cxl_domain_read_resources(struct device *dev)
iio_cxl_domain_read_resources(path, list) ==
    LET sr == domain_to_stack_res(path)
        a0 == [list |-> list, index |-> 0]
        a1 == IF extends_below(sr.IoBase, sr.PciResourceIoBase)
              THEN emit(a0, sr.IoBase, cxl_limit(sr.PciResourceIoBase),
                        range_size(sr.IoBase,
                                   cxl_limit(sr.PciResourceIoBase)),
                        {IORESOURCE_IO, IORESOURCE_ASSIGNED})
              ELSE a0
        a2 == IF extends_below(sr.Mmio32Base, sr.PciResourceMem32Base)
              THEN emit(a1, sr.Mmio32Base, cxl_limit(sr.PciResourceMem32Base),
                        range_size(sr.Mmio32Base,
                                   cxl_limit(sr.PciResourceMem32Base)),
                        {IORESOURCE_MEM, IORESOURCE_ASSIGNED})
              ELSE a1
        a3 == IF extends_below(sr.Mmio64Base, sr.PciResourceMem64Base)
              THEN emit(a2, sr.Mmio64Base, cxl_limit(sr.PciResourceMem64Base),
                        range_size(sr.Mmio64Base,
                                   cxl_limit(sr.PciResourceMem64Base)),
                        {IORESOURCE_MEM, IORESOURCE_ASSIGNED})
              ELSE a2
    IN  a3.list

\* noop_read_resources: the read_resources member of ubox_pcie_domain_ops
noop_read_resources(path, list) == list

(* ------------------------- device operations --------------------------- *)

iio_pcie_domain_ops == "iio_pcie_domain_ops"
ubox_pcie_domain_ops == "ubox_pcie_domain_ops"
iio_cxl_domain_ops == "iio_cxl_domain_ops"

DOMAIN_TYPE_PCIE == "DOMAIN_TYPE_PCIE"
DOMAIN_TYPE_UBX0 == "DOMAIN_TYPE_UBX0"
DOMAIN_TYPE_UBX1 == "DOMAIN_TYPE_UBX1"
DOMAIN_TYPE_CXL == "DOMAIN_TYPE_CXL"

\* dev->ops->read_resources(dev)
read_resources(ops, path, list) ==
    CASE ops = iio_pcie_domain_ops -> iio_pci_domain_read_resources(path, list)
      [] ops = iio_cxl_domain_ops -> iio_cxl_domain_read_resources(path, list)
      [] ops = ubox_pcie_domain_ops -> noop_read_resources(path, list)

(* --------------------------- domain builder ---------------------------- *)

\* alloc_find_dev(upstream, &path): the child with this path, or a new one
alloc_find_dev(tree, path) ==
    IF path \in DOMAIN tree
    THEN tree[path]
    ELSE [ops |-> NULL, name |-> NULL, link_list |-> <<>>,
          resource_list |-> <<>>]

\* alloc_bus(domain): a new bus on the domain
alloc_bus(dev, bus) == [dev EXCEPT !.link_list = Append(@, bus)]

\* static void soc_create_domains(dp, upstream, bus_base, bus_limit, type, ops)
\* st is the pair (children of the root bus, log of the keys passed in).
\* die() on a failed allocation ends the boot and is left out.
soc_create_domains(st, socket, stack, bus_base, bus_limit, type, ops) ==
    LET path == init_xeon_domain_path(socket, stack, bus_base)
        domain == alloc_find_dev(st.devs, path)
        named == [domain EXCEPT !.ops = ops, !.name = type]
        bus == [secondary |-> bus_base, subordinate |-> bus_base,
                max_subordinate |-> bus_limit]
        done == alloc_bus(named, bus)
    IN  [devs |-> [p \in DOMAIN st.devs \cup {path} |->
                      IF p = path THEN done ELSE st.devs[p]],
         calls |-> Append(st.calls, <<socket, stack, bus_base>>)]

\* static void soc_create_pcie_domains(dp, upstream, sr)
soc_create_pcie_domains(st, socket, stack, sr) ==
    soc_create_domains(st, socket, stack, sr.BusBase, sr.BusLimit,
                       DOMAIN_TYPE_PCIE, iio_pcie_domain_ops)

\* variant: the assertion only of a non-empty bus range
ubox_assert_weak(sr) == sr.BusBase <= sr.BusLimit

\* assert(sr->BusBase + 1 == sr->BusLimit)
ubox_assert(sr) == sr.BusBase + 1 = sr.BusLimit

\* variant: the second domain gets the PCIe operations
soc_create_ubox_domains_pcie_ops(st, socket, stack, sr) ==
    LET st1 == soc_create_domains(st, socket, stack, sr.BusBase, sr.BusBase,
                                  DOMAIN_TYPE_UBX0, ubox_pcie_domain_ops)
    IN  soc_create_domains(st1, socket, stack, sr.BusLimit, sr.BusLimit,
                           DOMAIN_TYPE_UBX1, iio_pcie_domain_ops)

\* variant: the BusLimit domain is created first
soc_create_ubox_domains_swapped(st, socket, stack, sr) ==
    LET st1 == soc_create_domains(st, socket, stack, sr.BusLimit, sr.BusLimit,
                                  DOMAIN_TYPE_UBX1, ubox_pcie_domain_ops)
    IN  soc_create_domains(st1, socket, stack, sr.BusBase, sr.BusBase,
                           DOMAIN_TYPE_UBX0, ubox_pcie_domain_ops)

\* static void soc_create_ubox_domains(dp, upstream, sr), past its assertion
soc_create_ubox_domains(st, socket, stack, sr) ==
    LET st1 == soc_create_domains(st, socket, stack, sr.BusBase, sr.BusBase,
                                  DOMAIN_TYPE_UBX0, ubox_pcie_domain_ops)
    IN  soc_create_domains(st1, socket, stack, sr.BusLimit, sr.BusLimit,
                           DOMAIN_TYPE_UBX1, ubox_pcie_domain_ops)

\* assert(sr->BusBase + 1 <= sr->BusLimit)
cxl_assert(sr) == sr.BusBase + 1 <= sr.BusLimit

\* variant: the CXL domain ends at BusBase + 1
soc_create_cxl_domains_one_bus(st, socket, stack, sr) ==
    LET st1 == soc_create_domains(st, socket, stack, sr.BusBase, sr.BusBase,
                                  DOMAIN_TYPE_PCIE, iio_pcie_domain_ops)
    IN  soc_create_domains(st1, socket, stack, sr.BusBase + 1, sr.BusBase + 1,
                           DOMAIN_TYPE_CXL, iio_cxl_domain_ops)

\* void soc_create_cxl_domains(dp, bus, sr), past its assertion
soc_create_cxl_domains(st, socket, stack, sr) ==
    LET st1 == soc_create_domains(st, socket, stack, sr.BusBase, sr.BusBase,
                                  DOMAIN_TYPE_PCIE, iio_pcie_domain_ops)
    IN  soc_create_domains(st1, socket, stack, sr.BusBase + 1, sr.BusLimit,
                           DOMAIN_TYPE_CXL, iio_cxl_domain_ops)

(* ------------------------------ the walk ------------------------------- *)

\* const STACK_RES *ri = &hob->PlatformData.IIO_resource[s].StackRes[x]
ri == hob.IIO_resource[s][x]

\* ++x of the inner loop, ++s of the outer loop, the return after the last
Advance ==
    IF x + 1 < MAX_LOGIC_IIO_STACK
    THEN /\ x' = x + 1
         /\ UNCHANGED <<s, pc>>
    ELSE /\ x' = 0
         /\ s' = s + 1
         /\ pc' = IF s + 1 < hob.numofIIO THEN "loop" ELSE "done"

\* a failed assertion stops the boot
Halt ==
    /\ pc' = "halted"
    /\ UNCHANGED <<s, x, devs, calls>>

Commit(st) ==
    /\ devs' = st.devs
    /\ calls' = st.calls
    /\ Advance

\* attach_iio_stacks up to its first loop test
Enter ==
    /\ pc = "entry"
    /\ pc' = IF ~hob.present THEN "done"
             ELSE IF 0 < hob.numofIIO THEN "loop" ELSE "done"
    /\ UNCHANGED <<hob, s, x, devs, calls, cls, invoked>>

\* variant: break in place of continue
SkipUnused_break ==
    /\ pc = "loop"
    /\ ri.BusBase > ri.BusLimit
    /\ x' = 0
    /\ s' = s + 1
    /\ pc' = IF s + 1 < hob.numofIIO THEN "loop" ELSE "done"
    /\ UNCHANGED <<hob, devs, calls, cls, invoked>>

\* if (ri->BusBase > ri->BusLimit) continue;
SkipUnused ==
    /\ pc = "loop"
    /\ ri.BusBase > ri.BusLimit
    /\ Advance
    /\ UNCHANGED <<hob, devs, calls, cls, invoked>>

\* the outcome of the is_*_stack_res tests on ri; cls logs it per slot
Classify(kind) ==
    /\ pc = "loop"
    /\ ~(ri.BusBase > ri.BusLimit)
    /\ cls' = cls \cup {<<s, x, kind>>}
    /\ UNCHANGED <<hob, invoked>>

\* if (is_ubox_stack_res(ri)) soc_create_ubox_domains(dn, root_bus, ri);
DispatchUbox ==
    /\ Classify("UBOX")
    /\ IF ubox_assert(ri)
       THEN Commit(soc_create_ubox_domains(
                [devs |-> devs, calls |-> calls], s, x, ri))
       ELSE Halt

\* else if (CONFIG(SOC_INTEL_HAS_CXL) && is_iio_cxl_stack_res(ri))
DispatchCxl ==
    /\ Classify("CXL")
    /\ IF cxl_assert(ri)
       THEN Commit(soc_create_cxl_domains(
                [devs |-> devs, calls |-> calls], s, x, ri))
       ELSE Halt

\* else if (is_pcie_iio_stack_res(ri)) soc_create_pcie_domains(dn, root_bus, ri);
DispatchPcie ==
    /\ Classify("PCIE")
    /\ Commit(soc_create_pcie_domains(
           [devs |-> devs, calls |-> calls], s, x, ri))

\* else if (CONFIG(HAVE_IOAT_DOMAINS) && is_ioat_iio_stack_res(ri)):
\* soc_create_ioat_domains is another file's; it makes no call of
\* soc_create_domains
DispatchIoat ==
    /\ Classify("IOAT")
    /\ Commit([devs |-> devs, calls |-> calls])

\* no test of the chain holds: the slot gets no domain
DispatchNone ==
    /\ Classify("NONE")
    /\ Commit([devs |-> devs, calls |-> calls])

\* the resource pass calls dev->ops->read_resources(dev) on a domain
ReadResources ==
    /\ pc = "done"
    /\ \E path \in DOMAIN devs :
         /\ devs' = [devs EXCEPT ![path].resource_list =
                        read_resources(devs[path].ops, path, @)]
         /\ invoked' = invoked \cup {path}
    /\ UNCHANGED <<hob, pc, s, x, calls, cls>>

(* --------------------------- specifications ---------------------------- *)

\* STACK_RES with the window fields all 0
BusOnly(b, l) ==
    [BusBase |-> b, BusLimit |-> l,
     IoBase |-> 0, Mmio32Base |-> 0, Mmio64Base |-> 0,
     PciResourceIoBase |-> 0, PciResourceIoLimit |-> 0,
     PciResourceMem32Base |-> 0, PciResourceMem32Limit |-> 0,
     PciResourceMem64Base |-> 0, PciResourceMem64Limit |-> 0]

BusDescs == {BusOnly(b, l) : b \in Buses, l \in Buses}

\* get_iio_uds() found no hand-off block
NoHob == [present |-> FALSE, numofIIO |-> 0, IIO_resource |-> <<>>]

\* a hand-off block of n sockets with the stack descriptors f
Hob(n, f) == [present |-> TRUE, numofIIO |-> n, IIO_resource |-> f]

Start ==
    /\ pc = "entry"
    /\ s = 0
    /\ x = 0
    /\ devs = <<>>
    /\ calls = <<>>
    /\ cls = {}
    /\ invoked = {}

Init ==
    /\ \/ hob = NoHob
       \/ \E n \in 0..MAX_SOCKET :
             \E f \in [0..(n - 1) -> [Stacks -> BusDescs]] : hob = Hob(n, f)
    /\ Start

NextWalk ==
    \/ Enter
    \/ SkipUnused
    \/ DispatchUbox
    \/ DispatchCxl
    \/ DispatchPcie
    \/ DispatchIoat
    \/ DispatchNone

Spec == Init /\ [][NextWalk]_vars

\* STACK_RES with the given bus range and window fields
Windowed(b, l, tio, t32, t64, bio, lio, b32, l32, b64, l64) ==
    [BusBase |-> b, BusLimit |-> l,
     IoBase |-> tio, Mmio32Base |-> t32, Mmio64Base |-> t64,
     PciResourceIoBase |-> bio, PciResourceIoLimit |-> lio,
     PciResourceMem32Base |-> b32, PciResourceMem32Limit |-> l32,
     PciResourceMem64Base |-> b64, PciResourceMem64Limit |-> l64]

\* hand-off blocks with one populated stack (s0, x0), of two or three buses
\* and any window fields; the other slots are unused
InitRes ==
    /\ \E s0 \in 0..(MAX_SOCKET - 1), x0 \in Stacks, b \in 0..1 :
         \E tio \in Totals, t32 \in Totals, t64 \in Totals,
            bio \in Addrs, lio \in Addrs, b32 \in Addrs, l32 \in Addrs,
            b64 \in Addrs, l64 \in Addrs :
            hob = Hob(MAX_SOCKET,
                      [i \in 0..(MAX_SOCKET - 1) |-> [j \in Stacks |->
                          IF i = s0 /\ j = x0
                          THEN Windowed(b, 2, tio, t32, t64, bio, lio,
                                        b32, l32, b64, l64)
                          ELSE BusOnly(1, 0)]])
    /\ Start

Next ==
    \/ NextWalk
    \/ ReadResources

SpecRes == InitRes /\ [][Next]_vars

(* ------------------------------ claims --------------------------------- *)

Kinds == {"UBOX", "CXL", "PCIE", "IOAT", "NONE"}

HobSlots == {<<i, j>> : i \in 0..(hob.numofIIO - 1), j \in Stacks}

StackRes(i, j) == hob.IIO_resource[i][j]

DevsOf(i, j) == {d \in DOMAIN devs : dn_socket(d) = i /\ dn_stack(d) = j}

Classified(i, j) == \E k \in Kinds : <<i, j, k>> \in cls

\* the loop has gone past slot (i, j)
Passed(i, j) == i < s \/ (i = s /\ j < x)

KeyLess(a, b) ==
    \/ a[1] < b[1]
    \/ a[1] = b[1] /\ a[2] < b[2]
    \/ a[1] = b[1] /\ a[2] = b[2] /\ a[3] < b[3]

\* C2: a slot with BusBase > BusLimit gets no domain and is not classified,
\* and passing it does not end the walk: every slot the loop has gone past
\* with BusBase <= BusLimit was classified (a PCIe one has its domain), the
\* walk stops early only on a slot with BusBase <= BusLimit, and it returns
\* only after the last socket.
C2_UnusedSlotSkipped ==
    /\ \A p \in HobSlots :
         LET sr == StackRes(p[1], p[2])
         IN  /\ sr.BusBase > sr.BusLimit =>
                  DevsOf(p[1], p[2]) = {} /\ ~Classified(p[1], p[2])
             /\ (sr.BusBase <= sr.BusLimit /\ Passed(p[1], p[2])) =>
                  /\ Classified(p[1], p[2])
                  /\ <<p[1], p[2], "PCIE">> \in cls =>
                       init_xeon_domain_path(p[1], p[2], sr.BusBase)
                           \in DOMAIN devs
    /\ pc = "halted" => StackRes(s, x).BusBase <= StackRes(s, x).BusLimit
    /\ pc = "done" => s = hob.numofIIO /\ x = 0

\* C2 witness: the walk is over, slot (0,0) was unused and every later slot
\* has a domain.
C2_Witness ==
    /\ pc = "done"
    /\ hob.numofIIO = MAX_SOCKET
    /\ StackRes(0, 0).BusBase > StackRes(0, 0).BusLimit
    /\ \A p \in HobSlots \ {<<0, 0>>} : DevsOf(p[1], p[2]) # {}

Malformed(i, j) ==
    LET sr == StackRes(i, j)
    IN  \/ <<i, j, "UBOX">> \in cls /\ sr.BusBase + 1 # sr.BusLimit
        \/ <<i, j, "CXL">> \in cls /\ sr.BusBase = sr.BusLimit

\* C9: once a stack dispatched as management with BusBase + 1 # BusLimit, or
\* as CXL with BusBase = BusLimit, is reached, the walk is halted on that
\* slot, the slot has no domain, and no later slot has been classified.
C9_MalformedHalts ==
    \A p \in HobSlots :
        Malformed(p[1], p[2]) =>
            /\ pc = "halted"
            /\ s = p[1] /\ x = p[2]
            /\ DevsOf(p[1], p[2]) = {}
            /\ \A q \in HobSlots :
                  Classified(q[1], q[2]) =>
                      q = p \/ KeyLess(<<q[1], q[2], 0>>, <<p[1], p[2], 0>>)

\* C9 witness: the walk halted on a malformed slot after it had created the
\* domains of an earlier slot.
C9_Witness ==
    /\ pc = "halted"
    /\ Malformed(s, x)
    /\ devs # <<>>
    /\ \E q \in HobSlots : q # <<s, x>> /\ StackRes(q[1], q[2]).BusBase <=
                                            StackRes(q[1], q[2]).BusLimit
                           /\ ~Passed(q[1], q[2])

\* C10: the keys (socket, stack, bus-base) passed to soc_create_domains are
\* strictly increasing, so each call allocates a new domain, and every
\* domain has one bus with secondary = subordinate = bus-base of its path
\* <= max_subordinate.
C10_KeysIncrease ==
    /\ \A i \in 1..Len(calls) : \A j \in 1..Len(calls) :
          i < j => KeyLess(calls[i], calls[j])
    /\ Cardinality(DOMAIN devs) = Len(calls)
    /\ \A d \in DOMAIN devs :
          /\ Len(devs[d].link_list) = 1
          /\ devs[d].link_list[1].secondary = dn_bus(d)
          /\ devs[d].link_list[1].subordinate = dn_bus(d)
          /\ dn_bus(d) <= devs[d].link_list[1].max_subordinate

\* C10 witness: a finished walk that made calls for two sockets, for two
\* stacks of a socket and twice for one stack.
C10_Witness ==
    /\ pc = "done"
    /\ \E i, j, k \in 1..Len(calls) :
          /\ calls[i][1] # calls[k][1]
          /\ calls[i][1] = calls[j][1] /\ calls[i][2] = calls[j][2]
          /\ i # j
          /\ \E m \in 1..Len(calls) :
                calls[m][1] = calls[i][1] /\ calls[m][2] # calls[i][2]

(* ---------------------- claims on read_resources ----------------------- *)

Res(d) == devs[d].resource_list

SR(d) == StackRes(dn_socket(d), dn_stack(d))

IsPcie(d) == devs[d].ops = iio_pcie_domain_ops

IsCxl(d) == devs[d].ops = iio_cxl_domain_ops

Window(base, limit, kind) ==
    [base |-> base, limit |-> limit, size |-> limit - base + 1,
     flags |-> {kind, IORESOURCE_ASSIGNED}]

LegacyWindow ==
    [base |-> 0, limit |-> 4095, size |-> 4096,
     flags |-> {IORESOURCE_IO, IORESOURCE_SUBTRACTIVE, IORESOURCE_ASSIGNED}]

Plain(list) ==
    [i \in 1..Len(list) |->
        [base |-> list[i].base, limit |-> list[i].limit,
         size |-> list[i].size, flags |-> list[i].flags]]

IsSubtractive(r) == IORESOURCE_SUBTRACTIVE \in r.flags

IsDiscovered(r) == ~IsSubtractive(r)

If(cond, w) == IF cond THEN <<w>> ELSE <<>>

\* the windows the standard rule derives from a descriptor
ExpectedStd(sr) ==
    If(sr.PciResourceIoBase < sr.PciResourceIoLimit,
       Window(sr.PciResourceIoBase, sr.PciResourceIoLimit, IORESOURCE_IO))
    \o If(sr.PciResourceMem32Base < sr.PciResourceMem32Limit,
          Window(sr.PciResourceMem32Base, sr.PciResourceMem32Limit,
                 IORESOURCE_MEM))
    \o If(sr.PciResourceMem64Base < sr.PciResourceMem64Limit,
          Window(sr.PciResourceMem64Base, sr.PciResourceMem64Limit,
                 IORESOURCE_MEM))

\* the windows the CXL-extension rule derives from a descriptor
ExpectedCxl(sr) ==
    If(sr.IoBase < sr.PciResourceIoBase,
       Window(sr.IoBase, sr.PciResourceIoBase - 1, IORESOURCE_IO))
    \o If(sr.Mmio32Base < sr.PciResourceMem32Base,
          Window(sr.Mmio32Base, sr.PciResourceMem32Base - 1, IORESOURCE_MEM))
    \o If(sr.Mmio64Base < sr.PciResourceMem64Base,
          Window(sr.Mmio64Base, sr.PciResourceMem64Base - 1, IORESOURCE_MEM))

IsLegacyAt0(list) ==
    /\ Len(list) >= 1
    /\ list[1].index = 0
    /\ Plain(list)[1] = LegacyWindow
    /\ \A i \in 2..Len(list) : list[i].index > 0 /\ IsDiscovered(list[i])

\* C1 as claimed: every standard domain whose path has bus-base 0, on any
\* socket and stack, lists the legacy window [0,0xFFF] first, at index 0.
C1_Original ==
    \A d \in invoked :
        (IsPcie(d) /\ dn_bus(d) = 0) => IsLegacyAt0(Res(d))

\* C1: a standard domain whose path is 0 (socket 0, stack 0, bus-base 0)
\* lists the legacy I/O window base 0, limit 0xFFF, size 0x1000, flagged
\* I/O + subtractive + assigned, first and at index 0, whatever the
\* PciResource fields are; every other standard domain lists no
\* subtractive window.
C1_LegacyFirst ==
    \A d \in invoked :
        IsPcie(d) =>
            IF dn_socket(d) = 0 /\ dn_stack(d) = 0 /\ dn_bus(d) = 0
            THEN IsLegacyAt0(Res(d))
            ELSE \A i \in 1..Len(Res(d)) : IsDiscovered(Res(d)[i])

\* C1 witness: the domain with path 0 was read and lists the legacy window
\* ahead of a discovered one.
C1_Witness ==
    \E d \in invoked :
        /\ IsPcie(d)
        /\ d = 0
        /\ Len(Res(d)) >= 2
        /\ IsSubtractive(Res(d)[1])

\* C3: a standard domain lists, after the legacy window if it has one, a
\* window for class X exactly when PciResourceXBase < PciResourceXLimit,
\* with base and limit copied, size = limit - base + 1 >= 2, base <= limit
\* and flags kind + assigned.
C3_StandardWindows ==
    \A d \in invoked :
        IsPcie(d) =>
            /\ SelectSeq(Plain(Res(d)), IsDiscovered) = ExpectedStd(SR(d))
            /\ \A i \in 1..Len(Res(d)) :
                  /\ Res(d)[i].base <= Res(d)[i].limit
                  /\ Res(d)[i].size = Res(d)[i].limit - Res(d)[i].base + 1
                  /\ Res(d)[i].size >= 2

\* C3 witness: a standard domain was read whose descriptor has no I/O
\* window (base >= limit) and both memory windows.
C3_Witness ==
    \E d \in invoked :
        /\ IsPcie(d)
        /\ SR(d).PciResourceIoBase >= SR(d).PciResourceIoLimit
        /\ Len(SelectSeq(Res(d), IsDiscovered)) = 2

\* C4: a CXL-extension domain lists a window for class X exactly when
\* TotalXBase < PciResourceXBase, it is [TotalXBase, PciResourceXBase - 1]
\* with size = limit - base + 1 and flags kind + assigned, and none of its
\* windows is the subtractive legacy window.
C4_CxlWindows ==
    \A d \in invoked :
        IsCxl(d) =>
            /\ Plain(Res(d)) = ExpectedCxl(SR(d))
            /\ \A i \in 1..Len(Res(d)) :
                  /\ IsDiscovered(Res(d)[i])
                  /\ Res(d)[i].size = Res(d)[i].limit - Res(d)[i].base + 1
                  /\ Res(d)[i].base <= Res(d)[i].limit

\* C4 witness: a CXL-extension domain was read whose descriptor gives it an
\* I/O and a memory-64 window and no memory-32 window.
C4_Witness ==
    \E d \in invoked :
        /\ IsCxl(d)
        /\ ~(SR(d).Mmio32Base < SR(d).PciResourceMem32Base)
        /\ Len(Res(d)) = 2

OneBus(d, secondary, max) ==
    devs[d].link_list = <<[secondary |-> secondary, subordinate |-> secondary,
                           max_subordinate |-> max]>>

\* C5: a stack dispatched as management with BusBase + 1 = BusLimit has
\* exactly two domains, one with the single bus BusBase labelled UBX0 and
\* one with the single bus BusLimit labelled UBX1, both with the no-op
\* operations, and neither ever lists a resource.
C5_UboxDomains ==
    \A p \in HobSlots :
        LET sr == StackRes(p[1], p[2])
            d0 == init_xeon_domain_path(p[1], p[2], sr.BusBase)
            d1 == init_xeon_domain_path(p[1], p[2], sr.BusLimit)
        IN  (<<p[1], p[2], "UBOX">> \in cls /\ sr.BusBase + 1 = sr.BusLimit) =>
                /\ DevsOf(p[1], p[2]) = {d0, d1}
                /\ d0 # d1
                /\ OneBus(d0, sr.BusBase, sr.BusBase)
                /\ OneBus(d1, sr.BusLimit, sr.BusLimit)
                /\ devs[d0].name = DOMAIN_TYPE_UBX0
                /\ devs[d1].name = DOMAIN_TYPE_UBX1
                /\ devs[d0].ops = ubox_pcie_domain_ops
                /\ devs[d1].ops = ubox_pcie_domain_ops
                /\ Res(d0) = <<>>
                /\ Res(d1) = <<>>

\* C5 witness: both domains of a management stack were read, and its
\* descriptor has window fields a standard domain would list.
C5_Witness ==
    \E p \in HobSlots :
        /\ <<p[1], p[2], "UBOX">> \in cls
        /\ DevsOf(p[1], p[2]) \subseteq invoked
        /\ Cardinality(DevsOf(p[1], p[2])) = 2
        /\ ExpectedStd(StackRes(p[1], p[2])) # <<>>
        /\ ExpectedCxl(StackRes(p[1], p[2])) # <<>>

\* C6: a stack dispatched as CXL with BusBase + 1 <= BusLimit has exactly
\* two domains: A on bus BusBase alone, standard operations, PCIe label,
\* and B on buses BusBase + 1 .. BusLimit, CXL operations, CXL label; A
\* lists the standard rule's windows only and B the CXL rule's only.
C6_CxlDomains ==
    \A p \in HobSlots :
        LET sr == StackRes(p[1], p[2])
            a == init_xeon_domain_path(p[1], p[2], sr.BusBase)
            b == init_xeon_domain_path(p[1], p[2], sr.BusBase + 1)
        IN  (<<p[1], p[2], "CXL">> \in cls /\ sr.BusBase + 1 <= sr.BusLimit) =>
                /\ DevsOf(p[1], p[2]) = {a, b}
                /\ a # b
                /\ OneBus(a, sr.BusBase, sr.BusBase)
                /\ OneBus(b, sr.BusBase + 1, sr.BusLimit)
                /\ devs[a].name = DOMAIN_TYPE_PCIE
                /\ devs[b].name = DOMAIN_TYPE_CXL
                /\ IsPcie(a)
                /\ IsCxl(b)
                /\ Len(Res(a)) =
                      IF a \in invoked
                      THEN Len(ExpectedStd(sr)) + (IF a = 0 THEN 1 ELSE 0)
                      ELSE 0
                /\ Len(Res(b)) =
                      IF b \in invoked THEN Len(ExpectedCxl(sr)) ELSE 0

\* C6 witness: both domains of a CXL stack of three buses were read, and
\* for the I/O class both rules have a window.
C6_Witness ==
    \E p \in HobSlots :
        LET sr == StackRes(p[1], p[2])
        IN  /\ <<p[1], p[2], "CXL">> \in cls
            /\ sr.BusBase + 2 = sr.BusLimit
            /\ DevsOf(p[1], p[2]) \subseteq invoked
            /\ sr.IoBase < sr.PciResourceIoBase
            /\ sr.PciResourceIoBase < sr.PciResourceIoLimit

Count(list, Test(_)) == Len(SelectSeq(list, Test))

IsIo(r) == IORESOURCE_IO \in r.flags

IsMem(r) == IORESOURCE_MEM \in r.flags

SameSpace(r1, r2) ==
    \/ IORESOURCE_IO \in r1.flags /\ IORESOURCE_IO \in r2.flags
    \/ IORESOURCE_MEM \in r1.flags /\ IORESOURCE_MEM \in r2.flags

Overlap(r1, r2) ==
    SameSpace(r1, r2) /\ r1.base <= r2.limit /\ r2.base <= r1.limit

NoOverlap(list) ==
    \A i \in 1..Len(list) : \A j \in 1..Len(list) :
        i < j => ~Overlap(list[i], list[j])

\* the ranges of the descriptor that one domain copies into windows of one
\* address space do not intersect
InputsDisjoint(d) ==
    LET sr == SR(d)
    IN  /\ IsPcie(d) =>
              /\ (d = 0 /\ sr.PciResourceIoBase < sr.PciResourceIoLimit) =>
                    sr.PciResourceIoBase > 4095
              /\ (/\ sr.PciResourceMem32Base < sr.PciResourceMem32Limit
                  /\ sr.PciResourceMem64Base < sr.PciResourceMem64Limit) =>
                    \/ sr.PciResourceMem32Limit < sr.PciResourceMem64Base
                    \/ sr.PciResourceMem64Limit < sr.PciResourceMem32Base
        /\ (/\ IsCxl(d)
            /\ sr.Mmio32Base < sr.PciResourceMem32Base
            /\ sr.Mmio64Base < sr.PciResourceMem64Base) =>
                \/ sr.PciResourceMem32Base - 1 < sr.Mmio64Base
                \/ sr.PciResourceMem64Base - 1 < sr.Mmio32Base

\* C7 as claimed: whatever the descriptor, the windows one domain lists do
\* not overlap within an address space, the legacy window included.
C7_Original == \A d \in invoked : NoOverlap(Res(d))

\* C7: the windows one domain lists do not overlap within an address space
\* whenever the descriptor ranges they are copied from do not: the two
\* memory ranges of the domain's rule are disjoint and, for the domain with
\* path 0, PciResourceIoBase is above 0xFFF.
C7_DisjointWindows ==
    \A d \in invoked : InputsDisjoint(d) => NoOverlap(Res(d))

\* C7 witness: both domains of a CXL stack at path 0 were read; the standard
\* one lists the legacy window and an I/O window above it, the CXL one two
\* memory windows that do not overlap.
C7_Witness ==
    /\ 0 \in invoked
    /\ IsPcie(0)
    /\ InputsDisjoint(0)
    /\ Count(Res(0), IsIo) = 2
    /\ \E d \in invoked :
          IsCxl(d) /\ InputsDisjoint(d) /\ Count(Res(d), IsMem) = 2

IsDiscoveredIo(r) == IsIo(r) /\ IsDiscovered(r)

Ordered(list) ==
    /\ \A i \in 1..Len(list) : list[i].index = i - 1
    /\ \A i \in 1..Len(list) : \A j \in 1..Len(list) :
          (IsMem(list[i]) /\ IsIo(list[j])) => j < i

\* C8 as claimed: every read lists at most one window per address class, so
\* at most one I/O window and two memory windows, I/O first, with indices
\* 0, 1, 2, ...
C8_Original ==
    \A d \in invoked :
        /\ Ordered(Res(d))
        /\ Count(Res(d), IsIo) <= 1
        /\ Count(Res(d), IsMem) <= 2

\* C8: every read lists at most one discovered window per address class,
\* after the legacy I/O window in the standard domain with path 0 (which
\* can so list two I/O windows), in the order legacy, I/O, memory-32,
\* memory-64, with indices 0, 1, 2, ...
C8_OrderedWindows ==
    \A d \in invoked :
        LET sr == SR(d)
            mem == SelectSeq(Res(d), IsMem)
        IN  /\ Ordered(Res(d))
            /\ Count(Res(d), IsDiscoveredIo) <= 1
            /\ Count(Res(d), IsMem) <= 2
            /\ \A i \in 1..Len(Res(d)) :
                  IsSubtractive(Res(d)[i]) => i = 1 /\ d = 0 /\ IsPcie(d)
            /\ Len(mem) = 2 =>
                  /\ mem[1].base = IF IsPcie(d) THEN sr.PciResourceMem32Base
                                   ELSE sr.Mmio32Base
                  /\ mem[2].base = IF IsPcie(d) THEN sr.PciResourceMem64Base
                                   ELSE sr.Mmio64Base

\* C8 witness: both domains of a CXL stack at path 0 were read; the standard
\* one lists four windows and the CXL one three.
C8_Witness ==
    /\ 0 \in invoked
    /\ IsPcie(0)
    /\ Len(Res(0)) = 4
    /\ \E d \in invoked : IsCxl(d) /\ Len(Res(d)) = 3

====
